---- MODULE Spec2Model ----
(***************************************************************************)
(* A model of printbufs (include/linux/printbuf.h): a string buffer that   *)
(* is either heap allocated and growable (PRINTBUF) or a caller-supplied   *)
(* fixed region (PRINTBUF_EXTERN), with snprintf-style truncation, an      *)
(* indent level and tabstops.                                              *)
(*                                                                         *)
(* The state is one struct printbuf (the record `out`), the allocator the  *)
(* buffer grows through (`kmem`), and bookkeeping about the calls made so  *)
(* far.  Every inline function of the header is an operator from a struct  *)
(* to the struct it leaves behind; the functions the header only declares  *)
(* (printbuf_make_room, the indent/tabstop engine) follow the design       *)
(* document.  Bytes are their ASCII codes.  `unsigned` fields are 32 bits  *)
(* wide in the program; the actions on `out` keep pos at or below MaxPos,  *)
(* far from the point where they wrap, and the cursor arithmetic at its    *)
(* full width is followed separately on `wide`, a caller's buffer written  *)
(* far past its capacity.  The unit-formatting fields of the struct        *)
(* (si_units, human_readable_units) and the two indent/tabstop hint flags  *)
(* are not read by any operation modelled here and are left out.           *)
(***************************************************************************)
EXTENDS Integers, Sequences, FiniteSets, TLC

(* ------------------------------ bounds -------------------------------- *)

\* Largest capacity of an externally-owned buffer.
MaxSize == 3
\* The actions keep the cursor at or below this value.
MaxPos == 4
\* Longest run / byte span / string handed to one write call.
MaxLen == 2
\* Largest indent level the indent calls are allowed to reach.
MaxIndent == 1
\* Minimum growth chunk of the heap buffer.
MinChunk == 2

\* Deepest nesting of atomic sections.
MaxNest == 256
\* How close to the ends of the 32-bit range the wide cursor is followed.
NearWrap == 20

(* --------------------------- program constants ------------------------ *)

PRINTBUF_INLINE_TABSTOPS == 4
\* u8 fields (atomic, nr_tabstops, cur_tabstop, _tabstops[]) count modulo this.
U8_MOD == 256
\* The value of a byte of storage nobody has written yet.
Junk == 255
SPACE == 32
NEWLINE == 10

\* `unsigned` is 32 bits wide: two halves counting modulo this.
HALF == 65536

\* Bytes the write calls are given.
Chars == {97, 98}
\* Byte values handed to prt_hex_byte / prt_hex_byte_upper.
HexBytes == {60}
\* Widths handed to printbuf_tabstop_push.
Widths == {2, 254}

\* The largest allocation any request of the model can ask for.
KmemMax == 2 * (MaxPos + 2) + MinChunk
\* What the allocator may be able to satisfy at a given moment.
KmemLevels == {MinChunk, KmemMax}
\* The same on a machine short of memory.
KmemTight == {0, MinChunk}

VARIABLES
    out,        \* the struct printbuf under test
    fresh,      \* <<>> or <<b>>: b a freshly constructed buffer fed the same calls as `out` since its last printbuf_reset
    kmem,       \* the largest allocation krealloc() satisfies right now
    reliable,   \* TRUE: the allocator never fails
    hist,       \* the bytes handed to the public writes so far
    nest,       \* the atomic sections still open: the value of `atomic` each was entered at
    wide        \* the size and cursor of a buffer written far past its capacity, as 32-bit unsigned values

vars == <<out, fresh, kmem, reliable, hist, nest, wide>>

(* ------------------------------ helpers ------------------------------- *)

min(a, b) == IF a < b THEN a ELSE b

max(a, b) == IF a > b THEN a ELSE b

\* out->buf[i] = c for a content byte.  `oob` records a store outside
\* buf[0 .. size), `term` a content byte stored in the last slot.
Store(o, i, c) ==
    IF i < o.size
    THEN [o EXCEPT !.buf[i] = c, !.term = @ \/ (i = o.size - 1)]
    ELSE [o EXCEPT !.oob = TRUE]

\* out->buf[i] = 0.
StoreNul(o, i) ==
    IF i < o.size
    THEN [o EXCEPT !.buf[i] = 0]
    ELSE [o EXCEPT !.oob = TRUE]

\* A 32-bit unsigned value is <<high half, low half>>.
u32(n) == <<(n \div HALF) % HALF, n % HALF>>

UINT_MAX == <<HALF - 1, HALF - 1>>

\* a + b, a - b and a < b of unsigned operands.
u32_add(a, b) ==
    LET lo == a[2] + b[2]
    IN  <<(a[1] + b[1] + (lo \div HALF)) % HALF, lo % HALF>>

u32_sub(a, b) ==
    LET borrow == IF a[2] < b[2] THEN 1 ELSE 0
    IN  <<(a[1] - b[1] - borrow + HALF) % HALF, (a[2] - b[2] + HALF) % HALF>>

u32_lt(a, b) == a[1] < b[1] \/ (a[1] = b[1] /\ a[2] < b[2])

u32_min(a, b) == IF u32_lt(a, b) THEN a ELSE b

(* --------------------------- struct printbuf -------------------------- *)

\* Bookkeeping of the storage: `borrowed` marks storage that belongs to
\* the caller, `moved` that krealloc() was called on it, `freed` counts the
\* kfree() calls made on it.
PRINTBUF ==
    [buf |-> [i \in {} |-> Junk], size |-> 0, pos |-> 0,
     last_newline |-> 0, last_field |-> 0, indent |-> 0, atomic |-> 0,
     allocation_failure |-> FALSE, heap_allocated |-> TRUE,
     nr_tabstops |-> 0, cur_tabstop |-> 0,
     tabstops |-> [i \in 0..(PRINTBUF_INLINE_TABSTOPS - 1) |-> 0],
     oob |-> FALSE, term |-> FALSE,
     borrowed |-> FALSE, moved |-> FALSE, freed |-> 0]

\* PRINTBUF_EXTERN() written as PRINTBUF with buf and size filled in.
PRINTBUF_EXTERN_heap(_buf, _size) ==
    [PRINTBUF EXCEPT !.buf = _buf, !.size = _size, !.borrowed = TRUE]

PRINTBUF_EXTERN(_buf, _size) ==
    [PRINTBUF EXCEPT !.buf = _buf, !.size = _size, !.heap_allocated = FALSE,
                     !.borrowed = TRUE]

printbuf_remaining_size(o) ==
    IF o.pos < o.size THEN o.size - o.pos ELSE 0

\* printbuf_remaining() that forgets the terminator's slot.
printbuf_remaining_full(o) ==
    IF o.pos < o.size THEN o.size - o.pos ELSE 0

\* printbuf_remaining() with the terminator's slot counted twice.
printbuf_remaining_short(o) ==
    IF o.pos + 1 < o.size THEN o.size - o.pos - 2 ELSE 0

printbuf_remaining(o) ==
    IF o.pos < o.size THEN o.size - o.pos - 1 ELSE 0

printbuf_written(o) ==
    IF o.size # 0 THEN min(o.pos, o.size - 1) ELSE 0

\* printbuf_overflowed() that waits for the cursor to pass the capacity.
printbuf_overflowed_past(o) == o.pos > o.size

printbuf_overflowed(o) == o.pos >= o.size

(* -------------------------- growth (declared) ------------------------- *)

RECURSIVE Grow(_, _)
\* Doubling, from at least the minimum chunk, until `need` bytes fit.
Grow(s, need) == IF s >= need THEN s ELSE Grow(max(2 * s, MinChunk), need)

\* krealloc(buf, new_size): the old bytes kept, the new ones unwritten.
krealloc(o, new_size) ==
    [o EXCEPT !.buf = [i \in 0..(new_size - 1) |->
                          IF i < o.size THEN o.buf[i] ELSE Junk],
              !.size = new_size, !.moved = TRUE]

\* The allocation flags of a growth request.
gfp(o) == IF o.atomic # 0 THEN "GFP_NOWAIT" ELSE "GFP_KERNEL"

printbuf_make_room(o, extra) ==
    IF ~o.heap_allocated \/ o.allocation_failure
    THEN o
    ELSE IF o.pos + extra + 1 <= o.size
    THEN o
    ELSE LET new_size == Grow(max(2 * o.size, MinChunk), o.pos + extra + 1)
         IN  IF new_size <= kmem
             THEN krealloc(o, new_size)
             ELSE [o EXCEPT !.allocation_failure = TRUE]

(* ------------------------- primitive writes --------------------------- *)

\* printbuf_nul_terminate() without the branch for an overflowed buffer.
printbuf_nul_terminate_fits(o) ==
    LET r == printbuf_make_room(o, 1)
    IN  IF r.pos < r.size THEN StoreNul(r, r.pos) ELSE r

printbuf_nul_terminate(o) ==
    LET r == printbuf_make_room(o, 1)
    IN  IF r.pos < r.size THEN StoreNul(r, r.pos)
        ELSE IF r.size # 0 THEN StoreNul(r, r.size - 1)
        ELSE r

\* __prt_char_reserved() that counts only the bytes it stores.
__prt_char_reserved_stored(o, c) ==
    IF printbuf_remaining(o) # 0
    THEN [Store(o, o.pos, c) EXCEPT !.pos = @ + 1]
    ELSE o

__prt_char_reserved(o, c) ==
    LET r == IF printbuf_remaining(o) # 0 THEN Store(o, o.pos, c) ELSE o
    IN  [r EXCEPT !.pos = @ + 1]

__prt_char(o, c) == __prt_char_reserved(printbuf_make_room(o, 1), c)

prt_char(o, c) == printbuf_nul_terminate(__prt_char(o, c))

RECURSIVE CopyLoop(_, _, _, _)
\* for (i = 0; i < can_print; i++) out->buf[out->pos++] = src[i];
CopyLoop(o, src, i, can_print) ==
    IF i < can_print
    THEN CopyLoop([Store(o, o.pos, src[i + 1]) EXCEPT !.pos = @ + 1],
                  src, i + 1, can_print)
    ELSE o

\* __prt_chars_reserved() that stops counting where the storage ends.
__prt_chars_reserved_stored(o, c, n) ==
    LET can_print == min(n, printbuf_remaining(o))
    IN  CopyLoop(o, [i \in 1..can_print |-> c], 0, can_print)

__prt_chars_reserved(o, c, n) ==
    LET can_print == min(n, printbuf_remaining(o))
        r == CopyLoop(o, [i \in 1..can_print |-> c], 0, can_print)
    IN  [r EXCEPT !.pos = @ + (n - can_print)]

\* prt_chars() that writes one byte fewer than asked.
prt_chars_short(o, c, n) ==
    LET k == IF n > 0 THEN n - 1 ELSE 0
    IN  printbuf_nul_terminate(__prt_chars_reserved(printbuf_make_room(o, k), c, k))

\* prt_chars() that writes its byte once, whatever the count.
prt_chars_once(o, c, n) ==
    printbuf_nul_terminate(__prt_chars_reserved(printbuf_make_room(o, 1), c, 1))

prt_chars(o, c, n) ==
    printbuf_nul_terminate(__prt_chars_reserved(printbuf_make_room(o, n), c, n))

\* prt_bytes() that stops counting where the storage ends.
prt_bytes_stored(o, b, n) ==
    LET m == printbuf_make_room(o, n)
        can_print == min(n, printbuf_remaining(m))
    IN  printbuf_nul_terminate(CopyLoop(m, b, 0, can_print))

\* prt_bytes() that does not ask for room first.
prt_bytes_unreserved(o, b, n) ==
    LET can_print == min(n, printbuf_remaining(o))
        r == CopyLoop(o, b, 0, can_print)
    IN  printbuf_nul_terminate([r EXCEPT !.pos = @ + (n - can_print)])

prt_bytes(o, b, n) ==
    LET m == printbuf_make_room(o, n)
        can_print == min(n, printbuf_remaining(m))
        r == CopyLoop(m, b, 0, can_print)
    IN  printbuf_nul_terminate([r EXCEPT !.pos = @ + (n - can_print)])

\* The cursor arithmetic of the writes at its full width, on a caller's
\* buffer w = [size, pos] (nothing grows, the terminator leaves pos alone).
printbuf_remaining_u32(w) ==
    IF u32_lt(w.pos, w.size)
    THEN u32_sub(u32_sub(w.size, w.pos), u32(1))
    ELSE u32(0)

\* out->pos++
__prt_char_reserved_pos(w) == [w EXCEPT !.pos = u32_add(@, u32(1))]

\* can_print iterations of out->pos++, then out->pos += n - can_print.
__prt_chars_reserved_pos(w, n) ==
    LET can_print == u32_min(n, printbuf_remaining_u32(w))
    IN  [w EXCEPT !.pos = u32_add(u32_add(@, can_print), u32_sub(n, can_print))]

\* The index of the first 0 of a C string.
strlen(str) == CHOOSE n \in 0..(Len(str) - 1) :
                   /\ str[n + 1] = 0
                   /\ \A i \in 1..n : str[i] # 0

prt_str(o, str) == prt_bytes(o, str, strlen(str))

hex_asc == <<48, 49, 50, 51, 52, 53, 54, 55, 56, 57, 97, 98, 99, 100, 101, 102>>

hex_asc_upper == <<48, 49, 50, 51, 52, 53, 54, 55, 56, 57, 65, 66, 67, 68, 69, 70>>

hex_asc_hi(x) == hex_asc[((x % U8_MOD) \div 16) + 1]

hex_asc_lo(x) == hex_asc[(x % 16) + 1]

hex_asc_upper_hi(x) == hex_asc_upper[((x % U8_MOD) \div 16) + 1]

hex_asc_upper_lo(x) == hex_asc_upper[(x % 16) + 1]

prt_hex_byte(o, byte) ==
    printbuf_nul_terminate(
        __prt_char_reserved(
            __prt_char_reserved(printbuf_make_room(o, 2), hex_asc_hi(byte)),
            hex_asc_lo(byte)))

prt_hex_byte_upper(o, byte) ==
    printbuf_nul_terminate(
        __prt_char_reserved(
            __prt_char_reserved(printbuf_make_room(o, 2), hex_asc_upper_hi(byte)),
            hex_asc_upper_lo(byte)))

\* printbuf_reset() that forgets the tabstop the next tab goes to.
printbuf_reset_keep_cur_tabstop(o) ==
    [o EXCEPT !.pos = 0, !.allocation_failure = FALSE, !.indent = 0,
              !.nr_tabstops = 0]

\* printbuf_reset() that leaves allocation_failure alone.
printbuf_reset_keep_failure(o) ==
    [o EXCEPT !.pos = 0, !.indent = 0, !.nr_tabstops = 0, !.cur_tabstop = 0]

printbuf_reset(o) ==
    [o EXCEPT !.pos = 0, !.allocation_failure = FALSE, !.indent = 0,
              !.nr_tabstops = 0, !.cur_tabstop = 0]

\* Frees the storage of a heap buffer, and only that.
printbuf_exit(o) ==
    IF o.heap_allocated THEN [o EXCEPT !.freed = @ + 1] ELSE o

\* kfree(buf.buf) by a caller who took the output buffer instead.
kfree(o) == [o EXCEPT !.freed = @ + 1]

printbuf_atomic_inc(o) == [o EXCEPT !.atomic = (@ + 1) % U8_MOD]

printbuf_atomic_dec(o) == [o EXCEPT !.atomic = (@ + U8_MOD - 1) % U8_MOD]

(* --------------------- indent and tabstops (declared) ----------------- *)

printbuf_indent_add(o, spaces) == [o EXCEPT !.indent = @ + spaces]

\* Clamped at 0 on the low end.
printbuf_indent_sub(o, spaces) ==
    [o EXCEPT !.indent = IF spaces > @ THEN 0 ELSE @ - spaces]

\* 0, or the error code, of a push onto a list of nr_tabstops stops.
printbuf_tabstop_push_rc(o, spaces) ==
    IF o.nr_tabstops >= PRINTBUF_INLINE_TABSTOPS THEN 0 - 22 ELSE 0

\* The new stop is stored in a u8 slot of _tabstops[].
printbuf_tabstop_push(o, spaces) ==
    IF o.nr_tabstops >= PRINTBUF_INLINE_TABSTOPS
    THEN o
    ELSE LET prev_tabstop == IF o.nr_tabstops # 0
                             THEN o.tabstops[o.nr_tabstops - 1]
                             ELSE 0
         IN  [o EXCEPT !.tabstops[o.nr_tabstops] = (prev_tabstop + spaces) % U8_MOD,
                       !.nr_tabstops = @ + 1]

printbuf_tabstop_pop(o) ==
    IF o.nr_tabstops = 0
    THEN o
    ELSE [o EXCEPT !.nr_tabstops = @ - 1,
                   !.cur_tabstop = min(@, o.nr_tabstops - 1)]

printbuf_tabstops_reset(o) == [o EXCEPT !.nr_tabstops = 0, !.cur_tabstop = 0]

\* Writes '\n' and the indent; the line starts right after the '\n', the
\* first field after the indent, and the tabstops are taken from the first.
prt_newline(o) ==
    LET a == prt_char(o, NEWLINE)
        b == [a EXCEPT !.last_newline = a.pos]
        c == prt_chars(b, SPACE, b.indent)
    IN  [c EXCEPT !.last_field = c.pos, !.cur_tabstop = 0]

\* The target column of the next tab.
cur_tabstop(o) == o.tabstops[o.cur_tabstop]

\* The spaces from the current column, pos - last_newline, up to the target,
\* never negative.  pos - last_newline is an unsigned difference: with
\* last_newline above pos it wraps to a column beyond every u8 target.
tab_spaces(o) ==
    IF o.pos < o.last_newline
    THEN 0
    ELSE max(0, cur_tabstop(o) - (o.pos - o.last_newline))

prt_tab(o) ==
    IF o.cur_tabstop >= o.nr_tabstops
    THEN o
    ELSE LET r == prt_chars(o, SPACE, tab_spaces(o))
         IN  [r EXCEPT !.last_field = r.pos, !.cur_tabstop = @ + 1]

\* pad = target - (last_field - last_newline) - (pos - last_field); an
\* unsigned difference that wraps makes it negative.
rjust_pad(o) ==
    IF o.pos < o.last_field \/ o.last_field < o.last_newline
    THEN 0 - 1
    ELSE cur_tabstop(o) - (o.last_field - o.last_newline) - (o.pos - o.last_field)

RECURSIVE ShiftLoop(_, _, _, _)
\* Moves buf[from + i] to buf[from + i + pad] for i = n-1 down to 0 (a
\* backward copy), storing nothing in or past the terminator's slot.
ShiftLoop(o, from, pad, n) ==
    IF n = 0
    THEN o
    ELSE LET src == from + n - 1
             r == IF src + pad + 1 < o.size THEN Store(o, src + pad, o.buf[src]) ELSE o
         IN  ShiftLoop(r, from, pad, n - 1)

\* The fill left out: the vacated bytes keep what the field had there.
FillLoop_none(o, from, n) == o

RECURSIVE FillLoop(_, _, _)
\* Fills buf[from .. from + n) with spaces, short of the terminator's slot.
FillLoop(o, from, n) ==
    IF n = 0
    THEN o
    ELSE LET r == IF from + n < o.size THEN Store(o, from + n - 1, SPACE) ELSE o
         IN  FillLoop(r, from, n - 1)

prt_tab_rjust(o) ==
    IF o.cur_tabstop >= o.nr_tabstops
    THEN o
    ELSE LET pad == rjust_pad(o)
             r == IF pad > 0
                  THEN LET m == printbuf_make_room(o, pad)
                           s == ShiftLoop(m, m.last_field, pad, m.pos - m.last_field)
                           f == FillLoop(s, s.last_field, pad)
                       IN  printbuf_nul_terminate([f EXCEPT !.pos = @ + pad])
                  ELSE o
         IN  [r EXCEPT !.last_field = r.pos, !.cur_tabstop = @ + 1]

RECURSIVE prt_bytes_indented(_, _, _)
\* A byte span whose embedded newlines go through prt_newline.
prt_bytes_indented(o, b, n) ==
    IF n = 0
    THEN o
    ELSE LET r == prt_bytes_indented(o, b, n - 1)
         IN  IF b[n] = NEWLINE THEN prt_newline(r) ELSE prt_char(r, b[n])

(* ------------------------------ inputs -------------------------------- *)

\* Byte spans of up to n bytes over the alphabet S.
Spans(S, n) == UNION {[1..k -> S] : k \in 0..n}

\* C strings: a span, its terminator, and sometimes a byte after it.
CStrings ==
    {s \o <<0>> : s \in Spans({98}, MaxLen)}
        \cup {s \o <<0, 97>> : s \in Spans({98}, MaxLen - 1)}

Impure == [logical |-> <<>>, pure |-> FALSE, wrote |-> FALSE]

\* No wide buffer is followed.
NoWide == [size |-> u32(0), pos |-> u32(0)]

\* Cursor values within NearWrap of either end of the 32-bit range.
NearEnds(p) ==
    \/ p[1] = 0 /\ p[2] <= NearWrap
    \/ p[1] = HALF - 1 /\ p[2] >= HALF - 1 - NearWrap

\* Lengths handed to prt_chars: short runs, and one run of nearly 2^32 bytes.
WideLens == {u32(n) : n \in 0..MaxLen} \cup {u32_sub(UINT_MAX, u32(NearWrap))}

(* ------------------------------- state -------------------------------- *)

\* A heap buffer, or a caller's region of any capacity up to MaxSize
\* (capacity 0: no storage at all).
Buffers ==
    {PRINTBUF}
        \cup {PRINTBUF_EXTERN([i \in 0..(s - 1) |-> Junk], s) : s \in 0..MaxSize}

Init ==
    /\ out \in Buffers
    /\ fresh = <<>>
    /\ kmem = KmemMax
    /\ reliable \in (IF out.heap_allocated THEN BOOLEAN ELSE {TRUE})
    /\ hist = [logical |-> <<>>, pure |-> TRUE, wrote |-> FALSE]
    /\ nest = <<>>
    /\ wide = NoWide

\* A condition on the buffer and on its twin.
Both(P(_)) == P(out) /\ (fresh # <<>> => P(fresh[1]))

\* One call made on the buffer and on its twin, the cursor kept within MaxPos.
\* A buffer whose storage was released is not used again.
Apply(Op(_)) ==
    /\ out.freed = 0
    /\ Both(LAMBDA o : Op(o).pos <= MaxPos)
    /\ out' = Op(out)
    /\ fresh' = IF fresh = <<>> THEN <<>> ELSE <<Op(fresh[1])>>

\* The record of a public write of `bytes`.
Logged(bytes) ==
    IF hist.pure
    THEN [hist EXCEPT !.logical = @ \o bytes, !.wrote = TRUE]
    ELSE hist

(* ------------------------------ actions ------------------------------- *)

PrtChar(C) ==
    \E c \in C :
        /\ Apply(LAMBDA o : prt_char(o, c))
        /\ hist' = Logged(<<c>>)
        /\ UNCHANGED <<kmem, reliable, nest, wide>>

PrtChars ==
    \E n \in 0..MaxLen :
        /\ Apply(LAMBDA o : prt_chars(o, 97, n))
        /\ hist' = Logged([i \in 1..n |-> 97])
        /\ UNCHANGED <<kmem, reliable, nest, wide>>

PrtBytes ==
    \E b \in Spans(Chars, MaxLen) :
        /\ Apply(LAMBDA o : prt_bytes(o, b, Len(b)))
        /\ hist' = Logged(b)
        /\ UNCHANGED <<kmem, reliable, nest, wide>>

PrtStr ==
    \E str \in CStrings :
        /\ Apply(LAMBDA o : prt_str(o, str))
        /\ hist' = Logged(SubSeq(str, 1, strlen(str)))
        /\ UNCHANGED <<kmem, reliable, nest, wide>>

PrtHexByte ==
    \E x \in HexBytes :
        /\ Apply(LAMBDA o : prt_hex_byte(o, x))
        /\ hist' = Logged(<<hex_asc_hi(x), hex_asc_lo(x)>>)
        /\ UNCHANGED <<kmem, reliable, nest, wide>>

PrtHexByteUpper ==
    \E x \in HexBytes :
        /\ Apply(LAMBDA o : prt_hex_byte_upper(o, x))
        /\ hist' = Logged(<<hex_asc_upper_hi(x), hex_asc_upper_lo(x)>>)
        /\ UNCHANGED <<kmem, reliable, nest, wide>>

PrtCharReserved ==
    /\ Apply(LAMBDA o : __prt_char_reserved(o, 97))
    /\ hist' = Impure
    /\ UNCHANGED <<kmem, reliable, nest, wide>>

PrtCharsReserved ==
    \E n \in 0..MaxLen :
        /\ Apply(LAMBDA o : __prt_chars_reserved(o, 97, n))
        /\ hist' = Impure
        /\ UNCHANGED <<kmem, reliable, nest, wide>>

PrtCharUnterminated ==
    /\ Apply(LAMBDA o : __prt_char(o, 98))
    /\ hist' = Impure
    /\ UNCHANGED <<kmem, reliable, nest, wide>>

NulTerminate ==
    /\ Apply(printbuf_nul_terminate)
    /\ hist' = Impure
    /\ UNCHANGED <<kmem, reliable, nest, wide>>

MakeRoom ==
    \E n \in 0..MaxLen :
        /\ out.pos + n <= MaxPos
        /\ Apply(LAMBDA o : printbuf_make_room(o, n))
        /\ hist' = Impure
        /\ UNCHANGED <<kmem, reliable, nest, wide>>

Reset ==
    /\ Apply(printbuf_reset)
    /\ hist' = Impure
    /\ UNCHANGED <<kmem, reliable, nest, wide>>

\* printbuf_reset(); from here on a freshly constructed buffer over the
\* same storage is fed the same calls.
ResetTwin ==
    /\ out' = printbuf_reset(out)
    /\ fresh' = <<[PRINTBUF EXCEPT !.buf = out.buf, !.size = out.size,
                                   !.heap_allocated = out.heap_allocated,
                                   !.atomic = out.atomic,
                                   !.oob = out.oob, !.term = out.term]>>
    /\ hist' = Impure
    /\ UNCHANGED <<kmem, reliable, nest, wide>>

\* Memory pressure comes and goes, unless the allocator never fails.
KmemChange(L) ==
    /\ ~reliable
    /\ \E k \in L \ {kmem} : kmem' = k
    /\ UNCHANGED <<out, fresh, reliable, hist, nest, wide>>

Newline ==
    /\ Apply(prt_newline)
    /\ hist' = Impure
    /\ UNCHANGED <<kmem, reliable, nest, wide>>

IndentAdd ==
    \E n \in 1..MaxIndent :
        /\ out.indent + n <= MaxIndent
        /\ Apply(LAMBDA o : printbuf_indent_add(o, n))
        /\ hist' = Impure
        /\ UNCHANGED <<kmem, reliable, nest, wide>>

IndentSub ==
    \E n \in 1..MaxIndent :
        /\ Apply(LAMBDA o : printbuf_indent_sub(o, n))
        /\ hist' = Impure
        /\ UNCHANGED <<kmem, reliable, nest, wide>>

TabstopPush(W) ==
    \E w \in W :
        /\ Apply(LAMBDA o : printbuf_tabstop_push(o, w))
        /\ hist' = Impure
        /\ UNCHANGED <<kmem, reliable, nest, wide>>

TabstopPop ==
    /\ Apply(printbuf_tabstop_pop)
    /\ hist' = Impure
    /\ UNCHANGED <<kmem, reliable, nest, wide>>

TabstopsReset ==
    /\ Apply(printbuf_tabstops_reset)
    /\ hist' = Impure
    /\ UNCHANGED <<kmem, reliable, nest, wide>>

Tab ==
    /\ Both(LAMBDA o : o.cur_tabstop < o.nr_tabstops => o.pos + tab_spaces(o) <= MaxPos)
    /\ Apply(prt_tab)
    /\ hist' = Impure
    /\ UNCHANGED <<kmem, reliable, nest, wide>>

TabRjust ==
    /\ Both(LAMBDA o : o.cur_tabstop < o.nr_tabstops => o.pos + rjust_pad(o) <= MaxPos)
    /\ Apply(prt_tab_rjust)
    /\ hist' = Impure
    /\ UNCHANGED <<kmem, reliable, nest, wide>>

BytesIndented(S) ==
    \E b \in Spans(S, MaxLen) :
        /\ Apply(LAMBDA o : prt_bytes_indented(o, b, Len(b)))
        /\ hist' = Impure
        /\ UNCHANGED <<kmem, reliable, nest, wide>>

Exit ==
    /\ Apply(printbuf_exit)
    /\ hist' = Impure
    /\ UNCHANGED <<kmem, reliable, nest, wide>>

\* The caller grabs the output buffer of a heap printbuf and frees it.
Kfree ==
    /\ out.heap_allocated
    /\ Apply(kfree)
    /\ hist' = Impure
    /\ UNCHANGED <<kmem, reliable, nest, wide>>

AtomicInc ==
    /\ Len(nest) < MaxNest
    /\ Apply(printbuf_atomic_inc)
    /\ nest' = Append(nest, out.atomic)
    /\ hist' = Impure
    /\ UNCHANGED <<kmem, reliable, wide>>

\* Leaves the innermost open section.
AtomicDec ==
    /\ nest # <<>>
    /\ Apply(printbuf_atomic_dec)
    /\ nest' = SubSeq(nest, 1, Len(nest) - 1)
    /\ hist' = Impure
    /\ UNCHANGED <<kmem, reliable, wide>>

\* prt_char() on the wide buffer.
WidePrtChar ==
    /\ NearEnds(__prt_char_reserved_pos(wide).pos)
    /\ wide' = __prt_char_reserved_pos(wide)
    /\ UNCHANGED <<out, fresh, kmem, reliable, hist, nest>>

\* prt_chars() on the wide buffer.
WidePrtChars ==
    \E n \in WideLens :
        /\ NearEnds(__prt_chars_reserved_pos(wide, n).pos)
        /\ wide' = __prt_chars_reserved_pos(wide, n)
        /\ UNCHANGED <<out, fresh, kmem, reliable, hist, nest>>

(* --------------------------- specifications --------------------------- *)

\* The write path: the primitive writes, growth and reuse.
Next ==
    \/ PrtChar(Chars)
    \/ PrtChars
    \/ PrtBytes
    \/ PrtStr
    \/ PrtHexByte
    \/ PrtHexByteUpper
    \/ PrtCharReserved
    \/ PrtCharsReserved
    \/ PrtCharUnterminated
    \/ NulTerminate
    \/ MakeRoom
    \/ Reset
    \/ KmemChange(KmemLevels)

Spec == Init /\ [][Next]_vars

\* A machine short of memory: the heap buffer gets its first chunk at most.
InitFmt ==
    /\ out \in Buffers
    /\ fresh = <<>>
    /\ kmem = MinChunk
    /\ reliable = ~out.heap_allocated
    /\ hist = [logical |-> <<>>, pure |-> TRUE, wrote |-> FALSE]
    /\ nest = <<>>
    /\ wide = NoWide

\* The formatting engine: lines, indent and tabstops over the write path.
NextFmt ==
    \/ PrtChar({97})
    \/ PrtCharReserved
    \/ Newline
    \/ IndentAdd
    \/ IndentSub
    \/ TabstopPush({2})
    \/ TabstopPop
    \/ TabstopsReset
    \/ Tab
    \/ TabRjust
    \/ BytesIndented({97, NEWLINE})
    \/ Reset
    \/ KmemChange(KmemTight)

SpecFmt == InitFmt /\ [][NextFmt]_vars

\* The tabstop list on a caller's buffer, with stops near the top of a u8.
InitTab ==
    /\ Init
    /\ ~out.heap_allocated

NextTab ==
    \/ PrtChar({97})
    \/ TabstopPush(Widths)
    \/ TabstopPop
    \/ TabstopsReset
    \/ Tab

SpecTab == InitTab /\ [][NextTab]_vars

\* Reuse: a buffer and its freshly constructed twin.
NextReuse ==
    \/ PrtChar({97})
    \/ Newline
    \/ IndentAdd
    \/ TabstopPush({2})
    \/ Tab
    \/ TabRjust
    \/ ResetTwin

SpecReuse == InitTab /\ [][NextReuse]_vars

\* The life of a buffer, up to the release of its storage.
NextLife ==
    \/ PrtChar(Chars)
    \/ PrtBytes
    \/ PrtCharsReserved
    \/ MakeRoom
    \/ NulTerminate
    \/ Reset
    \/ Exit
    \/ Kfree
    \/ KmemChange(KmemLevels)

SpecLife == Init /\ [][NextLife]_vars

\* Nested atomic sections around writes to a heap or a caller's buffer.
NextAtomic ==
    \/ AtomicInc
    \/ AtomicDec
    \/ PrtChar({97})

SpecAtomic == Init /\ [][NextAtomic]_vars

\* A caller's buffer written far past its capacity.
InitWrap ==
    /\ out \in Buffers
    /\ ~out.heap_allocated
    /\ fresh = <<>>
    /\ kmem = KmemMax
    /\ reliable = TRUE
    /\ hist = [logical |-> <<>>, pure |-> TRUE, wrote |-> FALSE]
    /\ nest = <<>>
    /\ wide = [size |-> u32(out.size), pos |-> u32(0)]

NextWrap ==
    \/ WidePrtChar
    \/ WidePrtChars

SpecWrap == InitWrap /\ [][NextWrap]_vars

(* ------------------------------- claims ------------------------------ *)

\* The materialized output: buf[0 .. printbuf_written()).
Stored(o) == [i \in 1..printbuf_written(o) |-> o.buf[i - 1]]

\* The inputs of the six public writes: <<function, argument>>.
WriteInputs ==
    {<<"prt_char", c>> : c \in Chars}
        \cup {<<"prt_chars", <<c, n>>>> : c \in Chars, n \in 0..MaxLen}
        \cup {<<"prt_bytes", b>> : b \in Spans(Chars, MaxLen)}
        \cup {<<"prt_str", str>> : str \in CStrings}
        \cup {<<"prt_hex_byte", x>> : x \in HexBytes}
        \cup {<<"prt_hex_byte_upper", x>> : x \in HexBytes}

\* The public write w made on o.
DoWrite(o, w) ==
    CASE w[1] = "prt_char" -> prt_char(o, w[2])
      [] w[1] = "prt_chars" -> prt_chars(o, w[2][1], w[2][2])
      [] w[1] = "prt_bytes" -> prt_bytes(o, w[2], Len(w[2]))
      [] w[1] = "prt_str" -> prt_str(o, w[2])
      [] w[1] = "prt_hex_byte" -> prt_hex_byte(o, w[2])
      [] w[1] = "prt_hex_byte_upper" -> prt_hex_byte_upper(o, w[2])

\* The length the public write w asks for.
WriteLen(w) ==
    CASE w[1] = "prt_char" -> 1
      [] w[1] = "prt_chars" -> w[2][2]
      [] w[1] = "prt_bytes" -> Len(w[2])
      [] w[1] = "prt_str" -> strlen(w[2])
      [] w[1] = "prt_hex_byte" -> 2
      [] w[1] = "prt_hex_byte_upper" -> 2

\* What each storing operation would leave behind when called on o.
StoringCalls(o) ==
    {DoWrite(o, w) : w \in WriteInputs}
        \cup {__prt_char_reserved(o, c) : c \in Chars}
        \cup {__prt_char(o, c) : c \in Chars}
        \cup {__prt_chars_reserved(o, c, n) : c \in Chars, n \in 0..MaxLen}
        \cup {printbuf_nul_terminate(o), prt_newline(o), prt_tab(o), prt_tab_rjust(o)}
        \cup {prt_bytes_indented(o, b, Len(b)) : b \in Spans({97, NEWLINE}, MaxLen)}

\* What each call that does not rewind the buffer would leave behind.
OtherCalls(o) ==
    StoringCalls(o)
        \cup {printbuf_make_room(o, n) : n \in 0..MaxLen}
        \cup {printbuf_indent_add(o, n) : n \in 1..MaxIndent}
        \cup {printbuf_indent_sub(o, n) : n \in 1..MaxIndent}
        \cup {printbuf_tabstop_push(o, w) : w \in Widths}
        \cup {printbuf_tabstop_pop(o), printbuf_tabstops_reset(o)}

\* C1: on an externally-owned buffer of capacity C > 0, once the public
\* writes made since construction add up to a logical length L > C - 1, pos
\* is L, printbuf_written() is C - 1 and buf[0 .. C-1) holds the first C - 1
\* bytes of the logical byte sequence, however the calls split them.
C1_Truncation ==
    (/\ ~out.heap_allocated
     /\ hist.pure
     /\ out.size > 0
     /\ Len(hist.logical) > out.size - 1)
        => /\ out.pos = Len(hist.logical)
           /\ printbuf_written(out) = out.size - 1
           /\ Stored(out) = SubSeq(hist.logical, 1, out.size - 1)

C1_Witness ==
    /\ ~out.heap_allocated
    /\ hist.pure
    /\ out.size = MaxSize
    /\ Len(hist.logical) > out.size
    /\ hist.logical[1] # hist.logical[2]
    /\ Stored(out) = SubSeq(hist.logical, 1, out.size - 1)

\* C2: while the public writes made since construction add up to a logical
\* length L of at most capacity - 1, printbuf_written() = pos = L and
\* buf[0 .. L) is exactly the bytes written, in order.
C2_RoundTrip ==
    (/\ hist.pure
     /\ out.size > 0
     /\ Len(hist.logical) <= out.size - 1)
        => /\ printbuf_written(out) = out.pos
           /\ out.pos = Len(hist.logical)
           /\ Stored(out) = hist.logical

C2_Witness ==
    /\ ~out.heap_allocated
    /\ hist.pure
    /\ out.size = MaxSize
    /\ Len(hist.logical) = out.size - 1
    /\ hist.logical[1] # hist.logical[2]
    /\ Stored(out) = hist.logical

\* C3: every public write, from any prior state and for any requested
\* length, leaves buf[printbuf_written()] = 0 when size > 0.
C3_NulTerminated ==
    \A w \in WriteInputs :
        LET r == DoWrite(out, w)
        IN  r.size > 0 => r.buf[printbuf_written(r)] = 0

C3_Witness ==
    /\ out.size > 0
    /\ out.pos > out.size
    /\ hist.wrote
    /\ out.buf[out.size - 1] = 0

Observed(o) ==
    [bytes |-> Stored(o), pos |-> o.pos, last_newline |-> o.last_newline,
     last_field |-> o.last_field, indent |-> o.indent,
     tabstops |-> [i \in 0..(o.nr_tabstops - 1) |-> o.tabstops[i]],
     cur_tabstop |-> o.cur_tabstop]

\* C5: after printbuf_reset(), any sequence of calls leaves the buffer with
\* the same output bytes, cursor and formatting state as the same calls
\* leave a freshly constructed buffer of the same capacity.
C5_ResetLikeFresh ==
    fresh # <<>> => Observed(out) = Observed(fresh[1])

\* C6 as stated: on a heap buffer whose allocator never fails, after any
\* sequence of public writes (the empty one included) allocation_failure is
\* false, pos + 1 <= size, printbuf_written() = pos and the content is the
\* whole logical byte sequence; and printbuf_make_room(n) leaves n bytes and
\* the terminator's slot available.
C6_NeverTruncated ==
    (out.heap_allocated /\ reliable)
        => /\ hist.pure
               => /\ ~out.allocation_failure
                  /\ out.pos + 1 <= out.size
                  /\ printbuf_written(out) = out.pos
                  /\ Stored(out) = hist.logical
           /\ \A n \in 0..MaxLen :
                  out.pos + n <= MaxPos
                      => LET r == printbuf_make_room(out, n)
                         IN  r.pos + n + 1 <= r.size

\* C6 as amended: the same after at least one public write; before its
\* first write a PRINTBUF has no storage (size = 0), so pos + 1 > size.
C6_NeverTruncatedOnceWritten ==
    (out.heap_allocated /\ reliable)
        => /\ (hist.pure /\ hist.wrote)
               => /\ ~out.allocation_failure
                  /\ out.pos + 1 <= out.size
                  /\ printbuf_written(out) = out.pos
                  /\ Stored(out) = hist.logical
           /\ \A n \in 0..MaxLen :
                  out.pos + n <= MaxPos
                      => LET r == printbuf_make_room(out, n)
                         IN  r.pos + n + 1 <= r.size

C6_Witness ==
    /\ out.heap_allocated
    /\ reliable
    /\ hist.pure
    /\ out.size > 2 * MinChunk
    /\ out.pos = MaxPos
    /\ hist.logical[1] # hist.logical[2]
    /\ Stored(out) = hist.logical

\* A buffer seen as a fixed region of its present capacity.
AsExtern(o) == [o EXCEPT !.heap_allocated = FALSE, !.allocation_failure = FALSE]

\* C7: a growth request that fails sets allocation_failure and changes
\* nothing else; the write it fails in still advances pos by its full
\* length and keeps the bytes stored before it; from then on every write
\* does what it would do on a fixed buffer of the present capacity.
C7_AllocationFailure ==
    /\ \A n \in 0..MaxLen :
           LET r == printbuf_make_room(out, n)
           IN  (~out.allocation_failure /\ r.allocation_failure)
                   => r = [out EXCEPT !.allocation_failure = TRUE]
    /\ \A w \in WriteInputs :
           LET r == DoWrite(out, w)
           IN  /\ (~out.allocation_failure /\ r.allocation_failure)
                   => /\ r.pos = out.pos + WriteLen(w)
                      /\ \A i \in 0..(printbuf_written(out) - 1) : r.buf[i] = out.buf[i]
               /\ out.allocation_failure
                   => /\ r.allocation_failure
                      /\ AsExtern(r) = DoWrite(AsExtern(out), w)

C7_Witness ==
    /\ out.heap_allocated
    /\ out.allocation_failure
    /\ hist.pure
    /\ out.size > 0
    /\ out.pos > out.size
    /\ Stored(out) = SubSeq(hist.logical, 1, out.size - 1)

\* C8 as stated: once allocation_failure is set it stays set across every
\* buffer operation, printbuf_reset included.
C8_Sticky ==
    [][out.allocation_failure => out'.allocation_failure]_vars

\* C8 as amended: allocation_failure stays set across every operation
\* except printbuf_reset, which clears it.
C8_StickyUntilReset ==
    /\ out.allocation_failure => \A r \in OtherCalls(out) : r.allocation_failure
    /\ ~printbuf_reset(out).allocation_failure

C8_Witness ==
    /\ out.allocation_failure
    /\ out.pos > out.size
    /\ out.last_newline > 0
    /\ out.nr_tabstops > 0

\* C9: printbuf_overflowed() is true exactly when output was truncated,
\* that is when printbuf_written() < pos.
C9_OverflowedIffTruncated ==
    printbuf_overflowed(out) <=> (printbuf_written(out) < out.pos)

\* C10: a push onto a full tabstop list returns an error and changes
\* nothing; a push below the maximum appends a stop at the previous stop's
\* offset plus the width (the width itself on an empty list).
C10_TabstopPush ==
    [][\A w \in Widths :
          TabstopPush({w}) =>
              IF out.nr_tabstops >= PRINTBUF_INLINE_TABSTOPS
              THEN /\ printbuf_tabstop_push_rc(out, w) # 0
                   /\ out'.nr_tabstops = out.nr_tabstops
                   /\ out'.tabstops = out.tabstops
                   /\ out'.cur_tabstop = out.cur_tabstop
              ELSE /\ out'.nr_tabstops = out.nr_tabstops + 1
                   /\ out'.tabstops[out.nr_tabstops] =
                          w + (IF out.nr_tabstops = 0
                               THEN 0
                               ELSE out.tabstops[out.nr_tabstops - 1])]_vars

\* C11: in every properly nested sequence of printbuf_atomic_inc() and
\* printbuf_atomic_dec(), of any depth, atomic is nonzero while a section
\* is open (growth then allocates with GFP_NOWAIT), and the matching dec
\* brings atomic back to the value the section was entered at.
C11_AtomicNesting ==
    nest # <<>>
        => /\ out.atomic # 0
           /\ gfp(out) = "GFP_NOWAIT"
           /\ printbuf_atomic_dec(out).atomic = nest[Len(nest)]

\* Everything that can be called on a buffer.
AllCalls(o) == OtherCalls(o) \cup {printbuf_reset(o), printbuf_exit(o)}

C13_PosMonotonic ==
    [][/\ ~u32_lt(wide'.pos, wide.pos)
       /\ ~u32_lt(wide'.size, wide.size)]_vars

\* C14 as stated: the overflow property of a buffer is true if and only
\* if pos > size.
C14_OverflowIffPastCapacity ==
    printbuf_overflowed(out) <=> out.pos > out.size

\* C14 as amended: the overflow property is true if and only if
\* pos >= size; whenever bytes handed to the public writes were lost it is
\* true, and on a buffer with storage it is true only then.
C14_OverflowIffAtCapacity ==
    /\ printbuf_overflowed(out) <=> out.pos >= out.size
    /\ hist.pure
           => /\ Stored(out) # hist.logical => printbuf_overflowed(out)
              /\ (out.size > 0 /\ printbuf_overflowed(out))
                     => Stored(out) # hist.logical

C14_Witness ==
    /\ out.size = MaxSize
    /\ out.pos = out.size
    /\ hist.pure
    /\ Len(hist.logical) = out.pos
    /\ Stored(out) = SubSeq(hist.logical, 1, out.size - 1)
    /\ printbuf_overflowed(out)

\* C15: in every state reached through tabstop pushes and pops, resets,
\* tabs and newlines, 0 <= cur_tabstop <= nr_tabstops <=
\* PRINTBUF_INLINE_TABSTOPS; a pop on an empty list, and prt_tab() or
\* prt_tab_rjust() with cur_tabstop out of range, change nothing.
C15_TabstopRange ==
    /\ 0 <= out.cur_tabstop
    /\ out.cur_tabstop <= out.nr_tabstops
    /\ out.nr_tabstops <= PRINTBUF_INLINE_TABSTOPS
    /\ out.nr_tabstops = 0 => printbuf_tabstop_pop(out) = out
    /\ out.cur_tabstop >= out.nr_tabstops
           => /\ prt_tab(out) = out
              /\ prt_tab_rjust(out) = out

C15_Witness ==
    /\ out.nr_tabstops > 1
    /\ out.cur_tabstop = out.nr_tabstops
    /\ out.pos > out.last_newline
    /\ out.last_newline > 0

\* The bytes of o stored below index n are the same in r.
Kept(o, r, n) ==
    \A i \in 0..(n - 1) : i < printbuf_written(o) => r.buf[i] = o.buf[i]

\* The bytes of r at [from, to), as far as they are stored, are all c.
Filled(r, from, to, c) ==
    \A i \in from..(to - 1) : i < printbuf_written(r) => r.buf[i] = c

\* C16: prt_tab() with cur_tabstop in range appends exactly
\* max(0, target - column) spaces, column = pos - last_newline (unsigned)
\* and target = tabstops[cur_tabstop]; afterwards the column is
\* max(column before, target) and cur_tabstop is one more; past the target
\* it writes nothing.
C16_TabSpaces ==
    out.cur_tabstop < out.nr_tabstops
        => LET r == prt_tab(out)
               target == out.tabstops[out.cur_tabstop]
               wrapped == out.pos < out.last_newline
               column == out.pos - out.last_newline
               spaces == IF wrapped THEN 0 ELSE max(0, target - column)
           IN  /\ r.pos = out.pos + spaces
               /\ Filled(r, out.pos, r.pos, SPACE)
               /\ Kept(out, r, out.pos)
               /\ r.last_newline = out.last_newline
               /\ ~wrapped => r.pos - r.last_newline = max(column, target)
               /\ r.cur_tabstop = out.cur_tabstop + 1

C16_Witness ==
    /\ out.size = MaxSize
    /\ out.nr_tabstops > 0
    /\ out.cur_tabstop = 1
    /\ out.last_newline = 0
    /\ out.pos = out.tabstops[0]
    /\ out.last_field = out.pos
    /\ out.buf[0] = 97
    /\ out.buf[1] = SPACE

\* C17: prt_tab_rjust() with cur_tabstop in range and a field
\* [last_field, pos) narrower than the room up to the target column moves
\* the field's bytes, unchanged and in order, so that the field ends at the
\* target column, fills the vacated bytes from the old last_field on with
\* spaces and leaves last_field = pos, cur_tabstop one more; with pad <= 0
\* no byte changes and only last_field and cur_tabstop advance.
C17_TabRjust ==
    out.cur_tabstop < out.nr_tabstops
        => LET r == prt_tab_rjust(out)
               target == out.tabstops[out.cur_tabstop]
               wrapped == out.pos < out.last_field \/ out.last_field < out.last_newline
               width == out.pos - out.last_field
               pad == target - (out.last_field - out.last_newline) - width
           IN  IF ~wrapped /\ pad > 0
               THEN /\ r.pos = out.pos + pad
                    /\ r.pos - r.last_newline = target
                    /\ \A i \in 0..(width - 1) :
                           (/\ out.last_field + i < printbuf_written(out)
                            /\ out.last_field + pad + i < printbuf_written(r))
                               => r.buf[out.last_field + pad + i] = out.buf[out.last_field + i]
                    /\ Filled(r, out.last_field, out.last_field + pad, SPACE)
                    /\ Kept(out, r, out.last_field)
                    /\ r.last_newline = out.last_newline
                    /\ r.last_field = r.pos
                    /\ r.cur_tabstop = out.cur_tabstop + 1
               ELSE r = [out EXCEPT !.last_field = out.pos, !.cur_tabstop = @ + 1]

C17_Witness ==
    /\ out.size = MaxSize
    /\ out.cur_tabstop = 1
    /\ out.last_newline = 0
    /\ out.pos = out.tabstops[0]
    /\ out.last_field = out.pos
    /\ out.buf[0] = SPACE
    /\ out.buf[1] = 97

\* C18: whatever indent calls, newlines and writes came before, the line
\* prt_newline() starts begins with exactly as many indent bytes as the
\* indent level at that call, and a plain write adds no indent of its own.
C18_Indent ==
    /\ LET r == prt_newline(out)
       IN  /\ r.pos = out.pos + 1 + out.indent
           /\ out.pos < printbuf_written(r) => r.buf[out.pos] = NEWLINE
           /\ r.last_newline = out.pos + 1
           /\ Filled(r, r.last_newline, r.last_newline + out.indent, SPACE)
           /\ r.last_field = r.last_newline + out.indent
           /\ r.indent = out.indent
           /\ Kept(out, r, out.pos)
    /\ LET r == prt_char(out, 97)
       IN  /\ r.pos = out.pos + 1
           /\ out.pos < printbuf_written(r) => r.buf[out.pos] = 97
           /\ r.last_newline = out.last_newline
           /\ Kept(out, r, out.pos)

C18_Witness ==
    /\ out.size = MaxSize
    /\ out.indent = MaxIndent
    /\ out.last_newline = 1
    /\ out.pos = out.last_newline + out.indent
    /\ out.last_field = out.pos
    /\ out.buf[0] = NEWLINE
    /\ out.buf[1] = SPACE

\* C19: in every reachable state, also after printbuf_reset() on a buffer
\* that held newlines or fields, last_newline <= pos and last_field <= pos,
\* so that pos - last_newline and pos - last_field never underflow.
C19_LineStartsBehindCursor ==
    /\ out.last_newline <= out.pos
    /\ out.last_field <= out.pos

RECURSIVE PrtCharEach(_, _, _)
\* prt_char(b[1]); ...; prt_char(b[n]).
PrtCharEach(o, b, n) ==
    IF n = 0 THEN o ELSE prt_char(PrtCharEach(o, b, n - 1), b[n])

\* prt_bytes, prt_chars and prt_hex_byte against prt_char by prt_char, for
\* lengths from `least` up.
SameAsCharByChar(o, least) ==
    /\ \A b \in Spans(Chars, MaxLen) :
           Len(b) >= least => prt_bytes(o, b, Len(b)) = PrtCharEach(o, b, Len(b))
    /\ \A c \in Chars, n \in least..MaxLen :
           prt_chars(o, c, n) = PrtCharEach(o, [i \in 1..n |-> c], n)
    /\ \A x \in HexBytes :
           /\ prt_hex_byte(o, x) = prt_char(prt_char(o, hex_asc_hi(x)), hex_asc_lo(x))
           /\ prt_hex_byte_upper(o, x) =
                  prt_char(prt_char(o, hex_asc_upper_hi(x)), hex_asc_upper_lo(x))

\* C20 as stated: on a caller's buffer in any state, prt_bytes(b, n) and
\* prt_chars(c, n) leave what n successive prt_char() calls leave (for
\* n = 0: nothing changed), and prt_hex_byte(x) what prt_char(high digit),
\* prt_char(low digit) leave.
C20_SameAsCharByChar ==
    ~out.heap_allocated => SameAsCharByChar(out, 0)

\* C20 as amended: the same for n >= 1; with n = 0 prt_bytes and prt_chars
\* do what printbuf_nul_terminate() does.
C20_SameAsCharByCharFromOne ==
    ~out.heap_allocated
        => /\ SameAsCharByChar(out, 1)
           /\ prt_bytes(out, <<>>, 0) = printbuf_nul_terminate(out)
           /\ \A c \in Chars : prt_chars(out, c, 0) = printbuf_nul_terminate(out)

C20_Witness ==
    /\ ~out.heap_allocated
    /\ out.size = MaxSize
    /\ out.pos = out.size - 2
    /\ hist.wrote
    /\ LET r == prt_bytes(out, <<97, 98>>, 2)
       IN  /\ r.pos = out.size
           /\ printbuf_written(r) = out.size - 1
           /\ r.buf[out.pos] = 97

====
